---- MODULE Spec2Model ----
(***************************************************************************)
(* Model of the Jixovox role-partitioned user database.                    *)
(*                                                                         *)
(* Strings of the program are sequences of one-character strings, so that  *)
(* str.lower, str.strip, str.isdigit, the e-mail regular expression and    *)
(* str(int) are computed, not assumed.  A JSON object is a TLA+ record     *)
(* whose DOMAIN is the set of keys it holds.                               *)
(***************************************************************************)
EXTENDS Integers, Sequences, FiniteSets, TLC

VARIABLES files, stats, ucache, gzfiles, inst, snap, last, tmpfiles, io,
          exports, clock, procs, loader, other

vars == <<files, stats, ucache, gzfiles, inst, snap, last, tmpfiles, io, exports, clock, procs,
          loader, other>>

(***************************************************************************)
(* Bounds of the model.                                                    *)
(***************************************************************************)
MaxUsers == 2
MaxIncoming == 2
MaxCount == 3
MaxTime == 8
MaxRetention == 3
Workers == {1, 2}

(***************************************************************************)
(* Characters and strings.                                                 *)
(***************************************************************************)
UpperChars == {"A", "B", "C"}
LowerChars == {"a", "b", "c", "l", "o", "t", "x", "y"}
DigitChars == {"0", "1", "2", "3", "4", "5", "6", "7", "8", "9"}
SpaceChars == {" "}
WordChars == UpperChars \cup LowerChars \cup DigitChars \cup {"_"}

\* str.lower on one character
LowerChar(c) ==
    IF c = "A" THEN "a" ELSE IF c = "B" THEN "b" ELSE IF c = "C" THEN "c" ELSE c

\* str.lower
Lower(s) == [i \in 1..Len(s) |-> LowerChar(s[i])]

\* str.strip: drop leading and trailing whitespace
RECURSIVE LStrip(_)
LStrip(s) == IF s # <<>> /\ Head(s) \in SpaceChars THEN LStrip(Tail(s)) ELSE s

RECURSIVE RStrip(_)
RStrip(s) ==
    IF s # <<>> /\ s[Len(s)] \in SpaceChars THEN RStrip(SubSeq(s, 1, Len(s) - 1)) ELSE s

Strip(s) == RStrip(LStrip(s))

\* str.isdigit: non-empty and every character a digit
IsDigit(s) == s # <<>> /\ \A i \in 1..Len(s) : s[i] \in DigitChars

DigitOf(d) ==
    CASE d = 0 -> "0" [] d = 1 -> "1" [] d = 2 -> "2" [] d = 3 -> "3" [] d = 4 -> "4"
      [] d = 5 -> "5" [] d = 6 -> "6" [] d = 7 -> "7" [] d = 8 -> "8" [] d = 9 -> "9"

\* str(n) for a natural number n
RECURSIVE Str(_)
Str(n) == IF n < 10 THEN <<DigitOf(n)>> ELSE Str(n \div 10) \o <<DigitOf(n % 10)>>

\* `needle in hay` for strings
Contains(hay, needle) ==
    \E i \in 0..(Len(hay) - Len(needle)) : SubSeq(hay, i + 1, i + Len(needle)) = needle

\* re.match(r'^[\w\.-]+@[\w\.-]+\.\w+$', s)
EmailRegexMatch(s) ==
    \E i \in 1..Len(s) : \E j \in 1..Len(s) :
        /\ 1 < i /\ i + 1 < j /\ j < Len(s)
        /\ s[i] = "@" /\ s[j] = "."
        /\ \A k \in 1..(i - 1) : s[k] \in WordChars \cup {".", "-"}
        /\ \A k \in (i + 1)..(j - 1) : s[k] \in WordChars \cup {".", "-"}
        /\ \A k \in (j + 1)..Len(s) : s[k] \in WordChars

\* add.py _norm_email: e.strip().lower()
norm_email(e) == Lower(Strip(e))

(***************************************************************************)
(* Values used as inputs.                                                  *)
(***************************************************************************)
EmailA == <<"a", "@", "t", ".", "c">>
EmailAUpper == <<"A", "@", "t", ".", "c">>
EmailB == <<"b", "@", "t", ".", "c">>
EmailASpace == <<"a", "@", "t", ".", "c", " ">>
EmailAUpperSpace == <<"A", "@", "t", ".", "c", " ">>
EmailEmpty == <<>>
NameAl == <<"A", "l">>
NameBo == <<"B", "o">>
NameCy == <<"C", "y">>
Id1 == <<"1">>
Id2 == <<"2">>
IdX == <<"x">>

VALID_ROLES == {"Owner", "Admin", "Bot"}
RoleOrder == <<"Owner", "Admin", "Bot">>
REQUIRED_FIELDS == {"id", "name", "email", "role"}

(***************************************************************************)
(* Files.  A role file is missing, holds a JSON list of objects, or holds  *)
(* text that is not valid JSON (empty or truncated).                       *)
(***************************************************************************)
Missing == [st |-> "missing", data |-> <<>>]
Invalid == [st |-> "invalid", data |-> <<>>]
ListFile(d) == [st |-> "list", data |-> d]

Range(s) == {s[i] : i \in 1..Len(s)}

RECURSIVE SeqSum(_)
SeqSum(s) == IF s = <<>> THEN 0 ELSE Head(s) + SeqSum(Tail(s))

\* dict.get(key, default)
Get(u, k, d) == IF k \in DOMAIN u THEN u[k] ELSE d

\* the number of records held by the role files, resp. the encrypted files
TotalUsers(fs) == SeqSum([i \in 1..Len(RoleOrder) |-> Len(fs[RoleOrder[i]].data)])

\* the operation that ran last and how it ended
Done(op, outcome) == [op |-> op, outcome |-> outcome]

(***************************************************************************)
(* USERS.py: class Users, JSON list per role with a class-level cache.     *)
(***************************************************************************)
NotCached == [loaded |-> FALSE, data |-> <<>>]
Cached(d) == [loaded |-> TRUE, data |-> d]

\* Users._validate_user: "ok" or the ValueError it raises
validate_user_info(user) ==
    IF ~(REQUIRED_FIELDS \subseteq DOMAIN user) THEN "ValueError:missing"
    ELSE IF ~EmailRegexMatch(user.email) THEN "ValueError:email"
    ELSE IF user.role \notin VALID_ROLES THEN "ValueError:role"
    ELSE "ok"

\* Users.is_duplicate: exact comparison of name and email over every role file
is_duplicate(fs, name, email) ==
    \E r \in VALID_ROLES :
        /\ fs[r].st = "list"
        /\ \E i \in 1..Len(fs[r].data) :
              \/ ("name" \in DOMAIN fs[r].data[i] /\ fs[r].data[i].name = name)
              \/ ("email" \in DOMAIN fs[r].data[i] /\ fs[r].data[i].email = email)

\* Users._read_data: the list returned and the cache afterwards
read_data(cache, fs, role) ==
    IF cache[role].loaded THEN [data |-> cache[role].data, cache |-> cache]
    ELSE IF fs[role].st = "list"
         THEN [data |-> fs[role].data,
               cache |-> [cache EXCEPT ![role] = Cached(fs[role].data)]]
         ELSE [data |-> <<>>, cache |-> [cache EXCEPT ![role] = Cached(<<>>)]]

\* Users.list_all_users: every role is read through Users._read_data
RECURSIVE read_all(_, _, _)
read_all(cache, fs, roles) ==
    IF roles = <<>> THEN [data |-> <<>>, cache |-> cache]
    ELSE LET rd == read_data(cache, fs, Head(roles))
             rest == read_all(rd.cache, fs, Tail(roles))
         IN [data |-> rd.data \o rest.data, cache |-> rest.cache]

ListAllUsers ==
    /\ ucache' = read_all(ucache, files, RoleOrder).cache
    /\ last' = Done("list_all_users", "ok")
    /\ UNCHANGED <<loader, other, procs, exports, clock, files, stats, gzfiles, inst, snap,
                   tmpfiles, io>>

\* User dictionaries handed to Users.add_user: three people, in either role,
\* and three dictionaries that validation refuses
AddPeople ==
    { [id |-> Id1, name |-> NameAl, email |-> EmailA],
      [id |-> IdX, name |-> NameBo, email |-> EmailAUpper],
      [id |-> Id2, name |-> NameCy, email |-> EmailB] }

AddInputs ==
    {[k \in DOMAIN p \cup {"role"} |-> IF k = "role" THEN r ELSE p[k]] :
        p \in AddPeople, r \in {"Owner", "Admin"}}
    \cup {[id |-> Id1, name |-> NameAl, email |-> EmailB],
          [id |-> Id1, name |-> NameBo, email |-> EmailASpace, role |-> "Owner"],
          [id |-> Id1, name |-> NameBo, email |-> EmailB, role |-> "Guest"]}

\* Users.add_user up to its write: how it ends, and for an accepted user the
\* list to write; users.append changes the cached list in place
add_user_plan(fs, cache, user) ==
    LET v == validate_user_info(user) IN
    IF v # "ok" THEN [outcome |-> v, users |-> <<>>, cache |-> cache]
    ELSE IF is_duplicate(fs, user.name, user.email)
    THEN [outcome |-> "ValueError:duplicate", users |-> <<>>, cache |-> cache]
    ELSE LET rd == read_data(cache, fs, user.role)
             users == Append(rd.data, user)
         IN [outcome |-> "ok", users |-> users,
             cache |-> [rd.cache EXCEPT ![user.role] = Cached(users)]]

\* Users.add_user
JsonAddUser(user) ==
    LET plan == add_user_plan(files, ucache, user) IN
    IF plan.outcome # "ok"
    THEN /\ last' = Done("add_user", plan.outcome)
         /\ UNCHANGED <<loader, other, procs, exports, clock, files, stats, ucache, gzfiles, inst, snap, tmpfiles, io>>
    ELSE /\ TotalUsers(files) < MaxUsers
         /\ Len(plan.users) <= MaxUsers
         /\ files' = [files EXCEPT ![user.role] = ListFile(plan.users)]
         /\ ucache' = plan.cache
         /\ last' = Done("add_user", "ok")
         /\ UNCHANGED <<loader, other, procs, exports, clock, stats, gzfiles, inst, snap, tmpfiles, io>>

\* the role files of a store: 1 is the store in the script directory, 2 a
\* store created with another base directory
BaseFiles(b) == IF b = 1 THEN files ELSE other

\* Users(base_dir=<other directory>): _ensure_role_folders writes [] for every
\* role file that is missing, and Users._write_data puts the written list into
\* the class-level cache of the role
UsersInit2 ==
    /\ other' = [r \in VALID_ROLES |->
                    IF other[r].st = "missing" THEN ListFile(<<>>) ELSE other[r]]
    /\ ucache' = [r \in VALID_ROLES |->
                     IF other[r].st = "missing" THEN Cached(<<>>) ELSE ucache[r]]
    /\ last' = Done("Users", "ok")
    /\ UNCHANGED <<loader, procs, exports, clock, files, stats, gzfiles, inst, snap,
                   tmpfiles, io>>

\* Users.add_user on the store of the other base directory: is_duplicate is a
\* classmethod that opens the role files beside USERS.py, _read_data and
\* _write_data use BASE_DIR and the cache of the class
JsonAddUser2(user) ==
    LET v == validate_user_info(user)
        rd == read_data(ucache, other, user.role)
        users == Append(rd.data, user)
    IN /\ \A r \in VALID_ROLES : other[r].st # "missing"
       /\ IF v # "ok" \/ is_duplicate(files, user.name, user.email)
          THEN /\ last' = Done("add_user", IF v # "ok" THEN v ELSE "ValueError:duplicate")
               /\ UNCHANGED <<other, ucache>>
          ELSE /\ TotalUsers(other) < MaxUsers
               /\ Len(users) <= MaxUsers
               /\ other' = [other EXCEPT ![user.role] = ListFile(users)]
               /\ ucache' = [rd.cache EXCEPT ![user.role] = Cached(users)]
               /\ last' = Done("add_user", "ok")
       /\ UNCHANGED <<loader, procs, exports, clock, files, stats, gzfiles, inst, snap,
                      tmpfiles, io>>

\* Users.list_all_users on store b, with the list it returns
ListAt(b) ==
    LET res == read_all(ucache, BaseFiles(b), RoleOrder) IN
    /\ b = 2 => \A r \in VALID_ROLES : other[r].st # "missing"
    /\ ucache' = res.cache
    /\ last' = [op |-> "list_all_users", outcome |-> "ok", base |-> b, data |-> res.data]
    /\ UNCHANGED <<loader, other, procs, exports, clock, files, stats, gzfiles, inst, snap,
                   tmpfiles, io>>

(***************************************************************************)
(* add.py: class Users, one encrypted record per line, per-role index.     *)
(***************************************************************************)
ADD_VALID_ROLES == {"Owner", "Admin"}
UNREADABLE == <<"[", "x", "]">>

\* a plaintext string and a Fernet token, as values of one field
Plain(s) == [plain |-> s]
encrypt_data(s) == [enc |-> s, ok |-> TRUE]
decrypt_data(c) == IF "enc" \in DOMAIN c /\ c.ok THEN c.enc ELSE UNREADABLE
HasAt(c) == "plain" \in DOMAIN c /\ "@" \in Range(c.plain)
Text(c) == IF "plain" \in DOMAIN c THEN c.plain ELSE <<>>

\* add.py _hash_email: sha256 of the normalized e-mail, taken as injective
hash_email(e) == <<"sha256", norm_email(e)>>

BadLine == [bad |-> TRUE]
NoGz == [st |-> "missing", data |-> <<>>]
GzLines(d) == [st |-> "lines", data |-> d]

\* the set of index keys the records of a cache contribute (Users._load_cache)
IndexOf(cache) ==
    {hash_email(decrypt_data(cache[i].email)) :
        i \in {k \in 1..Len(cache) :
                 /\ "email" \in DOMAIN cache[k]
                 /\ decrypt_data(cache[k].email) # <<>>
                 /\ decrypt_data(cache[k].email) # UNREADABLE}}

\* Users.__init__ with Users._load_cache: the instance, or DatabaseError
load_cache(gz, role, safe) ==
    IF gz[role].st = "missing"
    THEN [err |-> FALSE, role |-> role, cache |-> <<>>, email_index |-> {}, safe_mode |-> safe]
    ELSE IF \E i \in 1..Len(gz[role].data) : gz[role].data[i] = BadLine
    THEN [err |-> TRUE, role |-> role, cache |-> <<>>, email_index |-> {}, safe_mode |-> safe]
    ELSE [err |-> FALSE, role |-> role, cache |-> gz[role].data,
          email_index |-> IndexOf(gz[role].data), safe_mode |-> safe]

NoInst == [err |-> TRUE, role |-> "none", cache |-> <<>>, email_index |-> {}, safe_mode |-> FALSE]

\* Users.email_exists
email_exists(index, candidate) ==
    LET c == IF HasAt(candidate) THEN Text(candidate) ELSE decrypt_data(candidate)
    IN hash_email(c) \in index

\* Users.add_user on an instance: the instance and its file afterwards
gz_add_user(u, gzf, user) ==
    LET candidate == Get(user, "email", Plain(<<>>))
        plain == IF HasAt(candidate) THEN Text(candidate) ELSE decrypt_data(candidate)
        cache2 == Append(u.cache, user)
        index2 == IF plain # <<>> /\ plain # UNREADABLE
                  THEN u.email_index \cup {hash_email(plain)} ELSE u.email_index
    IN IF email_exists(u.email_index, candidate)
       THEN [outcome |-> "EmailExistsError", inst |-> u, file |-> gzf]
       ELSE [outcome |-> "ok",
             inst |-> [u EXCEPT !.cache = cache2, !.email_index = index2],
             file |-> IF u.safe_mode THEN GzLines(cache2)
                      ELSE GzLines(gzf.data \o <<user>>)]

\* stats.json: absent, holding {"User_Count": n}, holding no JSON, or holding
\* JSON that is a list
NoStats == [st |-> "missing", count |-> 0]
StatsFile(n) == [st |-> "ok", count |-> n]
InvalidStats == [st |-> "invalid", count |-> 0]
ListStats == [st |-> "list", count |-> 0]

\* add.py load_stats: what json.load gave, {"User_Count": 0} when the file
\* is missing or json.load raised
load_stats(sf) ==
    IF sf.st \in {"missing", "invalid"} THEN [kind |-> "dict", User_Count |-> 0]
    ELSE IF sf.st = "list" THEN [kind |-> "list"]
    ELSE [kind |-> "dict", User_Count |-> sf.count]

NoneStr == <<"None">>

\* the position of key k in a list of <<key, value>> pairs, 0 when absent
KeyPos(pairs, k) ==
    IF \E i \in 1..Len(pairs) : pairs[i][1] = k
    THEN CHOOSE i \in 1..Len(pairs) : pairs[i][1] = k /\ \A j \in 1..(i - 1) : pairs[j][1] # k
    ELSE 0

\* dict[k] = v on an insertion-ordered dict
DictPut(pairs, k, v) ==
    IF KeyPos(pairs, k) = 0 THEN Append(pairs, <<k, v>>)
    ELSE [pairs EXCEPT ![KeyPos(pairs, k)] = <<k, v>>]

RECURSIVE DictFrom(_, _)
DictFrom(pairs, kvs) ==
    IF kvs = <<>> THEN pairs
    ELSE DictFrom(DictPut(pairs, kvs[1][1], kvs[1][2]), Tail(kvs))

MirrorKey(u) ==
    <<Get(u, "id", NoneStr), norm_email(Get(u, "email", <<>>))>>

\* add.py _mirror_plain_users_json: the users.json of the role afterwards
mirror_plain_users_json(f, user_plain) ==
    IF f.st = "invalid" THEN f
    ELSE LET existing == IF f.st = "list" THEN f.data ELSE <<>>
             by_key == DictFrom(<<>>, [i \in 1..Len(existing) |->
                                          <<MirrorKey(existing[i]), existing[i]>>])
             merged == DictPut(by_key, MirrorKey(user_plain), user_plain)
         IN ListFile([i \in 1..Len(merged) |-> merged[i][2]])

\* stats.json left without valid content, or with content that is no object
DamageStats(sf) ==
    /\ stats # sf
    /\ stats' = sf
    /\ last' = Done("stats", "damaged")
    /\ UNCHANGED <<loader, other, procs, exports, clock, files, ucache, gzfiles, inst, snap, tmpfiles, io>>

\* Users(role_folder, safe_mode)
NewUsers(role, safe) ==
    LET u == load_cache(gzfiles, role, safe) IN
    /\ inst' = IF u.err THEN NoInst ELSE u
    /\ last' = Done("Users", IF u.err THEN "DatabaseError" ELSE "ok")
    /\ UNCHANGED <<loader, other, procs, exports, clock, files, stats, ucache, gzfiles, snap, tmpfiles, io>>

\* the record add.py main builds for the encrypted store
GzUser(id, name, email, role) ==
    [id |-> id, name |-> encrypt_data(name), email |-> encrypt_data(email), role |-> role]

\* Users.add_user called on the live instance
GzAddUser(name, email) ==
    /\ ~inst.err
    /\ Len(inst.cache) < MaxUsers
    /\ TotalUsers(gzfiles) < MaxUsers
    /\ LET user == GzUser(Str(Len(inst.cache) + 1), name, email, inst.role)
           res == gz_add_user(inst, gzfiles[inst.role], user)
       IN /\ inst' = res.inst
          /\ gzfiles' = [gzfiles EXCEPT ![inst.role] = res.file]
          /\ last' = Done("gz_add_user", res.outcome)
    /\ UNCHANGED <<loader, other, procs, exports, clock, files, stats, ucache, snap, tmpfiles, io>>

\* Users.add_user in append mode when the process stops inside the write of
\* Users._append: the file ends with the part of the line that was written
AppendCrash(name, email) ==
    /\ ~inst.err
    /\ ~inst.safe_mode
    /\ Len(inst.cache) < MaxUsers
    /\ TotalUsers(gzfiles) < MaxUsers
    /\ LET user == GzUser(Str(Len(inst.cache) + 1), name, email, inst.role)
           res == gz_add_user(inst, gzfiles[inst.role], user)
       IN /\ res.outcome = "ok"
          /\ gzfiles' = [gzfiles EXCEPT ![inst.role] =
                            GzLines(gzfiles[inst.role].data \o <<BadLine>>)]
    /\ inst' = NoInst
    /\ last' = Done("gz_add_user", "crash")
    /\ UNCHANGED <<loader, other, procs, exports, clock, files, stats, ucache, snap, tmpfiles, io>>

\* add.py main: the whole registration flow for validated prompt inputs
AddMain(name, email, role) ==
    LET loaded == load_stats(stats)
        new_id == loaded.User_Count + 1
        u == load_cache(gzfiles, role, FALSE)
    IN
    /\ loaded.kind = "dict" => new_id <= MaxCount
    /\ IF loaded.kind # "dict"
       THEN /\ last' = Done("add_main", "AttributeError")
            /\ UNCHANGED <<loader, other, procs, exports, clock, files, stats, ucache, gzfiles, inst, snap, tmpfiles, io>>
       ELSE IF role \notin ADD_VALID_ROLES
       THEN /\ last' = Done("add_main", "ValidationError")
            /\ UNCHANGED <<loader, other, procs, exports, clock, files, stats, ucache, gzfiles, inst, snap, tmpfiles, io>>
       ELSE IF u.err
       THEN /\ last' = Done("add_main", "DatabaseError")
            /\ inst' = NoInst
            /\ UNCHANGED <<loader, other, procs, exports, clock, files, stats, ucache, gzfiles, snap, tmpfiles, io>>
       ELSE IF email_exists(u.email_index, Plain(email))
       THEN /\ last' = Done("add_main", "EmailExistsError")
            /\ inst' = u
            /\ UNCHANGED <<loader, other, procs, exports, clock, files, stats, ucache, gzfiles, snap, tmpfiles, io>>
       ELSE LET res == gz_add_user(u, gzfiles[role], GzUser(Str(new_id), name, email, role))
                plain == [id |-> Str(new_id), name |-> name, email |-> email, role |-> role]
            IN /\ TotalUsers(gzfiles) < MaxUsers
               /\ TotalUsers(files) < MaxUsers
               /\ inst' = res.inst
               /\ gzfiles' = [gzfiles EXCEPT ![role] = res.file]
               /\ files' = [files EXCEPT ![role] = mirror_plain_users_json(files[role], plain)]
               /\ stats' = StatsFile(new_id)
               /\ last' = Done("add_main", res.outcome)
               /\ UNCHANGED <<loader, other, procs, exports, clock, ucache, snap, tmpfiles, io>>

(***************************************************************************)
(* remove.py                                                               *)
(***************************************************************************)
\* the subsequence of s at the positions satisfying keep, in order
RECURSIVE SelectIdx(_, _, _)
SelectIdx(s, keep, i) ==
    IF i > Len(s) THEN <<>>
    ELSE (IF i \in keep THEN <<s[i]>> ELSE <<>>) \o SelectIdx(s, keep, i + 1)

\* remove.py fuzzy_match, without the optional rapidfuzz library
fuzzy_match(query, user) ==
    LET q == Lower(query) IN
    \/ ("id" \in DOMAIN user /\ user.id = q)
    \/ Contains(Lower(Get(user, "name", <<>>)), q)
    \/ Contains(Lower(Get(user, "email", <<>>)), q)

\* the renumbering loop of delete_user_from_role
renumber(remaining) ==
    [i \in 1..Len(remaining) |->
        IF IsDigit(Get(remaining[i], "id", <<>>))
        THEN [k \in DOMAIN remaining[i] \cup {"id"} |->
                 IF k = "id" THEN Str(i) ELSE remaining[i][k]]
        ELSE remaining[i]]

RemoveQueries == {<<"1">>, <<"a">>, <<"B", "o">>, <<"x">>}

\* remove.py delete_user_from_role up to save_users: how it ends and, when a
\* record is deleted, the list to save; choice is the dialog entry picked,
\* confirm the answer to the confirmation prompt
remove_plan(f, query, choice, confirm) ==
    LET users == f.data
        matchIdx == {i \in 1..Len(users) : fuzzy_match(query, users[i])}
        matches == SelectIdx(users, matchIdx, 1)
        selected == matches[choice]
        remaining == SelectIdx(users, {i \in 1..Len(users) : users[i] # selected}, 1)
        end(o) == [outcome |-> o, data |-> <<>>]
    IN IF f.st = "missing" THEN end("FileNotFoundError")
       ELSE IF f.st # "list" THEN end("ValueError")
       ELSE IF users = <<>> THEN end("empty")
       ELSE IF matchIdx = {} THEN end("nomatch")
       ELSE IF choice \notin 1..Len(matches) THEN end("nochoice")
       ELSE IF ~({"name", "email", "id"} \subseteq DOMAIN selected) THEN end("KeyError")
       ELSE IF ~confirm THEN end("aborted")
       ELSE [outcome |-> "deleted", data |-> renumber(remaining)]

\* remove.py delete_user_from_role
delete_user_from_role(role, query, choice, confirm) ==
    LET plan == remove_plan(files[role], query, choice, confirm) IN
    /\ plan.outcome # "nochoice"
    /\ plan.outcome \in {"FileNotFoundError", "ValueError", "empty", "nomatch", "KeyError"}
          => choice = 1 /\ confirm
    /\ IF plan.outcome = "deleted"
       THEN files' = [files EXCEPT ![role] = ListFile(plan.data)]
       ELSE UNCHANGED files
    /\ last' = Done("remove", plan.outcome)
    /\ UNCHANGED <<loader, other, procs, exports, clock, stats, ucache, gzfiles, inst, snap, tmpfiles, io>>

\* delete_user_from_role when the process stops inside save_users, after
\* file_path.open("w") has truncated the role file
RemoveCrash(role, query, choice) ==
    /\ remove_plan(files[role], query, choice, TRUE).outcome = "deleted"
    /\ files' = [files EXCEPT ![role] = Invalid]
    /\ last' = Done("remove", "crash")
    /\ UNCHANGED <<loader, other, procs, exports, clock, stats, ucache, gzfiles, inst, snap,
                   tmpfiles, io>>

(***************************************************************************)
(* bot_creator.py                                                          *)
(***************************************************************************)
BotNames == {<<"B", "o", "t", "1">>, <<"B", "o", "t", "2">>}
BotEmails == {<<"b", "1", "@", "b", ".", "c">>, <<"b", "2", "@", "b", ".", "c">>}

\* bot_creator.py load_bots
load_bots(f) == IF f.st = "list" THEN f.data ELSE <<>>

\* bot_creator.py create_bots for count = 1
create_bots(name, email) ==
    LET bots == load_bots(files["Bot"])
        bot == [name |-> name, email |-> email, role |-> "Bot"]
    IN /\ TotalUsers(files) < MaxUsers
       /\ \A i \in 1..Len(bots) : {"name", "email"} \subseteq DOMAIN bots[i]
       /\ \A i \in 1..Len(bots) : bots[i].name # name /\ bots[i].email # email
       /\ files' = [files EXCEPT !["Bot"] = ListFile(Append(bots, bot))]
       /\ last' = Done("create_bots", "ok")
       /\ UNCHANGED <<loader, other, procs, exports, clock, stats, ucache, gzfiles, inst, snap, tmpfiles, io>>

\* create_bots when the process stops inside save_bots, after open(BOT_FILE,
\* "w") has truncated the file and before json.dump has completed
CreateBotsCrash ==
    /\ files["Bot"].st = "list"
    /\ TotalUsers(files) < MaxUsers
    /\ files' = [files EXCEPT !["Bot"] = Invalid]
    /\ last' = Done("create_bots", "crash")
    /\ UNCHANGED <<loader, other, procs, exports, clock, stats, ucache, gzfiles, inst, snap,
                   tmpfiles, io>>

(***************************************************************************)
(* export_import.py                                                        *)
(***************************************************************************)
NoSnap == [st |-> "missing", users |-> <<>>]

\* export_import.py _load_role_users: the list, or the ValueError it raises
load_role_users(fs, role) ==
    IF role \notin DOMAIN fs \/ fs[role].st = "missing" THEN [err |-> FALSE, data |-> <<>>]
    ELSE IF fs[role].st = "list" THEN [err |-> FALSE, data |-> fs[role].data]
    ELSE [err |-> TRUE, data |-> <<>>]

\* export_import.py _normalize_user, for an entry that holds the required fields
normalize_user(user, role) ==
    [k \in DOMAIN user |->
        IF k = "role" THEN role
        ELSE IF k \in {"id", "name", "email"} THEN Strip(user[k])
        ELSE user[k]]

\* the identifier _dedupe_users computes for a record
Identifier(user) ==
    LET email_key == Lower(Get(user, "email", <<>>))
    IN IF email_key # <<>> THEN email_key ELSE Get(user, "id", <<>>)

\* export_import.py _dedupe_users: the loop from position i on, with the
\* identifiers seen (parallel to deduped) and the list built so far
RECURSIVE dedupe_from(_, _, _, _)
dedupe_from(users, i, seen, deduped) ==
    IF i > Len(users) THEN deduped
    ELSE LET ident == Identifier(users[i])
             pos == IF \E k \in 1..Len(seen) : seen[k] = ident
                    THEN CHOOSE k \in 1..Len(seen) : seen[k] = ident ELSE 0
         IN IF pos # 0
            THEN dedupe_from(users, i + 1, seen, [deduped EXCEPT ![pos] = users[i]])
            ELSE dedupe_from(users, i + 1, Append(seen, ident), Append(deduped, users[i]))

\* a dedupe that keeps the first record of an identifier, not the last
dedupe_users_keep_first(users) ==
    SelectIdx(users,
              {i \in 1..Len(users) :
                  \A k \in 1..(i - 1) : Identifier(users[k]) # Identifier(users[i])}, 1)

\* a dedupe that leaves each identifier's last record where it stood, so
\* that the output follows the last occurrences
dedupe_users_in_last_order(users) ==
    SelectIdx(users,
              {i \in 1..Len(users) :
                  \A k \in (i + 1)..Len(users) : Identifier(users[k]) # Identifier(users[i])}, 1)

dedupe_users(users) == dedupe_from(users, 1, <<>>, <<>>)

\* a renumbering that counts from 0
reindex_ids_from_zero(users) ==
    [i \in 1..Len(users) |->
        [k \in DOMAIN users[i] \cup {"id"} |-> IF k = "id" THEN Str(i - 1) ELSE users[i][k]]]

\* export_import.py _reindex_ids
reindex_ids(users) ==
    [i \in 1..Len(users) |->
        [k \in DOMAIN users[i] \cup {"id"} |-> IF k = "id" THEN Str(i) ELSE users[i][k]]]

\* export_import.py _write_role_users: the role directory is made when it is
\* not there, the file is written beside and renamed over users.json
write_role_users(fs, role, users) ==
    [r \in DOMAIN fs \cup {role} |-> IF r = role THEN ListFile(users) ELSE fs[r]]

\* the keys a 'users' mapping may carry, in the order the file lists them
SnapshotKeyOrder == RoleOrder \o <<"Guest">>

\* the keys of a 'users' mapping in the order import_database meets them
RECURSIVE RolesIn(_, _)
RolesIn(s, i) ==
    IF i > Len(SnapshotKeyOrder) THEN <<>>
    ELSE (IF SnapshotKeyOrder[i] \in DOMAIN s THEN <<SnapshotKeyOrder[i]>> ELSE <<>>)
         \o RolesIn(s, i + 1)

\* every key taken for a role of the store
any_role(role) == TRUE

\* import_database: role in DEFAULT_ROLES
is_default_role(role) == role \in VALID_ROLES

\* the records of both modes taken together
import_source_both(mode, existing, incoming) == existing \o incoming

\* import_database: the records a mode hands to _dedupe_users
import_source(mode, existing, incoming) ==
    IF mode = "merge" THEN existing \o incoming ELSE incoming

\* the loop of import_database over the roles still to process: the role
\* files, the counts and the total it ends with, and whether it raised
RECURSIVE import_loop(_, _, _, _, _, _)
import_loop(fs, s, mode, todo, counts, total) ==
    IF todo = <<>> THEN [err |-> "ok", files |-> fs, counts |-> counts, total |-> total]
    ELSE IF ~is_default_role(Head(todo))
    THEN import_loop(fs, s, mode, Tail(todo), counts, total)
    ELSE LET role == Head(todo)
             incoming_raw == s[role]
             existing == load_role_users(fs, role)
         IN IF \E i \in 1..Len(incoming_raw) : ~(REQUIRED_FIELDS \subseteq DOMAIN incoming_raw[i])
            THEN [err |-> "ValueError:missing", files |-> fs, counts |-> counts, total |-> total]
            ELSE IF mode = "merge" /\ existing.err
            THEN [err |-> "ValueError:json", files |-> fs, counts |-> counts, total |-> total]
            ELSE LET incoming == [i \in 1..Len(incoming_raw) |->
                                     normalize_user(incoming_raw[i], role)]
                     merged == reindex_ids(
                                 dedupe_users(import_source(mode, existing.data, incoming)))
                 IN import_loop(write_role_users(fs, role, merged), s, mode, Tail(todo),
                                counts @@ (role :> Len(incoming)), total + Len(merged))

EmptyCounts == [r \in {} |-> 0]

\* export_import.py export_database
export_database ==
    /\ \A r \in VALID_ROLES : ~load_role_users(files, r).err
    /\ snap' = [st |-> "ok", users |-> [r \in VALID_ROLES |-> load_role_users(files, r).data]]
    /\ last' = Done("export", "ok")
    /\ UNCHANGED <<loader, other, procs, exports, clock, files, stats, ucache, gzfiles, inst, tmpfiles, io>>

\* records that an external snapshot may carry
IncomingPool ==
    { [id |-> Id1, name |-> NameAl, email |-> EmailA, role |-> "Owner"],
      [id |-> Id2, name |-> NameBo, email |-> EmailAUpperSpace, role |-> "Admin"],
      [id |-> Id2, name |-> NameAl, email |-> EmailEmpty, role |-> "Owner"],
      [id |-> Id1, name |-> NameAl, email |-> EmailB] }

IncomingLists ==
    {<<>>} \cup {<<a>> : a \in IncomingPool}
           \cup {<<a, b>> : a \in IncomingPool, b \in IncomingPool}

SnapshotKeys == {{"Owner"}, {"Owner", "Admin"}, {"Bot", "Guest"}}

\* what a key that is no role of the store may hold: nothing, or an entry
\* without the required fields
UnknownRoleLists == {<<>>, <<[id |-> Id1, name |-> NameAl, email |-> EmailB]>>}

\* the 'users' sections of the snapshots handed to import
SnapshotInputs ==
    {s \in UNION {[K -> IncomingLists] : K \in SnapshotKeys} :
        /\ SeqSum([i \in 1..Len(RoleOrder) |->
                      IF RoleOrder[i] \in DOMAIN s THEN Len(s[RoleOrder[i]]) ELSE 0])
              <= MaxIncoming
        /\ \A k \in DOMAIN s : k \notin VALID_ROLES => s[k] \in UnknownRoleLists}

\* snapshot files: with a 'users' mapping, without the key, with a list under it
SnapshotFiles ==
    {[st |-> "ok", users |-> s] : s \in SnapshotInputs}
    \cup {[st |-> "absent", users |-> <<>>], [st |-> "list", users |-> <<>>]}

\* a snapshot file handed to import from outside (the caller's --file)
PutSnapshot(sn) ==
    /\ snap' = sn
    /\ snap' # snap
    /\ last' = Done("snapshot", "ok")
    /\ UNCHANGED <<loader, other, procs, exports, clock, files, stats, ucache, gzfiles, inst, tmpfiles, io>>

\* any content taken for a 'users' mapping
any_users_section(sn) == sn.st # "missing"

\* import_database: isinstance(users_section, dict)
valid_users_section(sn) == sn.st = "ok"

NoSummary == [roles_updated |-> EmptyCounts, total_users |-> 0]

\* a summary whose total adds the incoming counts
import_summary_of_incoming(res) ==
    [roles_updated |-> res.counts,
     total_users |-> SeqSum([i \in 1..Len(SnapshotKeyOrder) |->
                                IF SnapshotKeyOrder[i] \in DOMAIN res.counts
                                THEN res.counts[SnapshotKeyOrder[i]] ELSE 0])]

\* import_database: the dictionary it returns
import_summary(res) == [roles_updated |-> res.counts, total_users |-> res.total]

\* how an import ended, with the summary it returned
ImportDone(mode, outcome, summary) ==
    [op |-> "import", outcome |-> outcome, mode |-> mode, summary |-> summary]

\* an import that undoes its writes when it fails
files_rolled_back(before, res) == IF res.err = "ok" THEN res.files ELSE before

\* the role files an import leaves: whatever its loop had written when it
\* ended or raised
files_after_import(before, res) == res.files

\* export_import.py import_database
import_database(mode) ==
    LET s == snap.users
        res == import_loop(files, s, mode, RolesIn(s, 1), EmptyCounts, 0)
    IN IF snap.st = "missing"
       THEN /\ last' = ImportDone(mode, "FileNotFoundError", NoSummary)
            /\ UNCHANGED <<loader, other, procs, exports, clock, files, stats, ucache, gzfiles, inst, snap, tmpfiles, io>>
       ELSE IF ~valid_users_section(snap)
       THEN /\ last' = ImportDone(mode, "ValueError:users", NoSummary)
            /\ UNCHANGED <<loader, other, procs, exports, clock, files, stats, ucache, gzfiles, inst, snap, tmpfiles, io>>
       ELSE /\ TotalUsers(res.files) <= MaxUsers
            /\ files' = files_after_import(files, res)
            /\ stats' = IF res.err = "ok" THEN StatsFile(res.total) ELSE stats
            /\ last' = ImportDone(mode, res.err,
                                  IF res.err = "ok" THEN import_summary(res) ELSE NoSummary)
            /\ UNCHANGED <<loader, other, procs, exports, clock, ucache, gzfiles, inst, snap, tmpfiles, io>>

\* the files users-export-*.json of the exports directory, sorted by name;
\* a name carries the second it was made in, here the reading of the clock
RECURSIVE SortedExports(_)
SortedExports(dir) ==
    IF dir = {} THEN <<>>
    ELSE LET least == CHOOSE x \in dir : \A y \in dir : x <= y
         IN <<least>> \o SortedExports(dir \ {least})

\* Python's seq[:k]: the first k elements, all but the last -k when k < 0
PySlice(seq, k) ==
    LET n == IF k >= 0 THEN (IF k < Len(seq) THEN k ELSE Len(seq))
             ELSE (IF Len(seq) + k > 0 THEN Len(seq) + k ELSE 0)
    IN SubSeq(seq, 1, n)

\* export_import.py prune_old_exports: the directory afterwards
prune_old_exports(dir, retention) ==
    IF retention <= 0 THEN dir
    ELSE LET sorted == SortedExports(dir)
             excess == Len(sorted) - retention
         IN dir \ Range(PySlice(sorted, excess))

\* export_import.py run_backup: export into the exports directory, then prune
run_backup(retention) ==
    /\ IF \E r \in VALID_ROLES : load_role_users(files, r).err
       THEN /\ last' = Done("backup", "ValueError")
            /\ UNCHANGED exports
       ELSE /\ exports' = prune_old_exports(exports \cup {clock}, retention)
            /\ last' = Done("backup", "ok")
    /\ UNCHANGED <<loader, other, procs, files, stats, ucache, gzfiles, inst, snap, tmpfiles, io, clock>>

\* a second passes
Tick ==
    /\ clock < MaxTime
    /\ clock' = clock + 1
    /\ UNCHANGED <<loader, other, procs, files, stats, ucache, gzfiles, inst, snap, last, tmpfiles, io, exports>>

(***************************************************************************)
(* Two mutations in flight: each worker reads, then writes.                *)
(***************************************************************************)
\* a worker between operations; one that works carries the operation, the
\* role, the list it is about to write, the record it adds or removes, and
\* whether the other worker was at work at some point of its operation
IdleWorker == [pc |-> "idle", op |-> "none", role |-> "none", data |-> <<>>,
               rec |-> [name |-> <<>>], overlap |-> FALSE]

AtWork(w) == procs[w].pc \in {"save", "write"}

\* worker w starts: it and the workers at work now overlap
Begin(w, work) ==
    [v \in Workers |->
        IF v = w THEN [work EXCEPT !.overlap = \E o \in Workers \ {w} : AtWork(o)]
        ELSE IF AtWork(v) THEN [procs[v] EXCEPT !.overlap = TRUE]
        ELSE procs[v]]

\* delete_user_from_role up to the call of save_users: load_users, the
\* choice and the renumbering, under no lock
RemoveLoad(w, role, query, choice) ==
    LET plan == remove_plan(files[role], query, choice, TRUE)
        matches == SelectIdx(files[role].data,
                             {i \in 1..Len(files[role].data) :
                                 fuzzy_match(query, files[role].data[i])}, 1)
    IN /\ procs[w].pc = "idle"
       /\ plan.outcome = "deleted"
       /\ procs' = Begin(w, [pc |-> "save", op |-> "remove", role |-> role,
                              data |-> plan.data, rec |-> matches[choice],
                              overlap |-> FALSE])
       /\ last' = Done("remove", "loaded")
       /\ UNCHANGED <<loader, other, files, stats, ucache, gzfiles, inst, snap, tmpfiles, io, exports, clock>>

\* save_users: the write of the list, under _file_lock
RemoveSave(w) ==
    /\ procs[w].pc = "save"
    /\ files' = [files EXCEPT ![procs[w].role] = ListFile(procs[w].data)]
    /\ procs' = [procs EXCEPT ![w].pc = "done"]
    /\ last' = Done("remove", "deleted")
    /\ UNCHANGED <<loader, other, stats, ucache, gzfiles, inst, snap, tmpfiles, io, exports, clock>>

\* Users.add_user from taking Users._lock to users.append
AddBegin(w, user) ==
    LET plan == add_user_plan(files, ucache, user) IN
    /\ procs[w].pc = "idle"
    /\ \A o \in Workers : procs[o].pc # "write"
    /\ plan.outcome = "ok"
    /\ TotalUsers(files) < MaxUsers
    /\ Len(plan.users) <= MaxUsers
    /\ ucache' = plan.cache
    /\ procs' = Begin(w, [pc |-> "write", op |-> "add", role |-> user.role,
                           data |-> plan.users, rec |-> user, overlap |-> FALSE])
    /\ last' = Done("add_user", "locked")
    /\ UNCHANGED <<loader, other, files, stats, gzfiles, inst, snap, tmpfiles, io, exports, clock>>

\* Users._write_data and the release of Users._lock
AddWrite(w) ==
    /\ procs[w].pc = "write"
    /\ files' = [files EXCEPT ![procs[w].role] = ListFile(procs[w].data)]
    /\ procs' = [procs EXCEPT ![w].pc = "done"]
    /\ last' = Done("add_user", "ok")
    /\ UNCHANGED <<loader, other, stats, ucache, gzfiles, inst, snap, tmpfiles, io, exports, clock>>

\* the worker is free for its next operation
Restart(w) ==
    /\ procs[w].pc = "done"
    /\ procs' = [procs EXCEPT ![w] = IdleWorker]
    /\ UNCHANGED <<loader, other, files, stats, ucache, gzfiles, inst, snap, last, tmpfiles, io, exports, clock>>

(***************************************************************************)
(* update.py: an edited record is saved, and moved when its role changed.  *)
(***************************************************************************)
UPDATE_ROLES == {"Owner", "Developer", "Admin", "Member"}

\* str(u.get('id')) as save_user compares it
IdStr(u) == Get(u, "id", <<"N", "o", "n", "e">>)

\* update.py save_user: the list it writes into the file of the user's role;
\* a file that cannot be read as a list counts as the empty list
save_user(f, user) ==
    LET users_list == IF f.st = "list" THEN f.data ELSE <<>>
        hits == {i \in 1..Len(users_list) : IdStr(users_list[i]) = IdStr(user)}
        first == CHOOSE i \in hits : \A j \in hits : i <= j
    IN IF hits # {} THEN [users_list EXCEPT ![first] = user]
       ELSE Append(users_list, user)

\* update.py main for one edit: the record at position i of the file of role
\* src is selected, the editor hands it back with the role new_role, the
\* record is saved and then taken out of the file of its old role
UpdateMain(src, i, new_role) ==
    LET user == files[src].data[i]
        new_user == [user EXCEPT !.role = new_role]
        old_role == user.role
        saved == [files EXCEPT ![new_role] = ListFile(save_user(files[new_role], new_user))]
        old == saved[old_role].data
        kept == SelectSeq(old, LAMBDA u : IdStr(u) # IdStr(new_user))
    IN
    /\ files[src].st = "list"
    /\ i \in 1..Len(files[src].data)
    /\ REQUIRED_FIELDS \subseteq DOMAIN user
    /\ IF new_role \notin UPDATE_ROLES
       THEN /\ last' = Done("update", "ValueError")
            /\ UNCHANGED files
       ELSE IF old_role = new_role \/ old_role \notin UPDATE_ROLES
               \/ old_role \notin DOMAIN files \/ saved[old_role].st = "missing"
       THEN /\ files' = saved
            /\ last' = Done("update", "ok")
       ELSE IF saved[old_role].st # "list"
       THEN /\ files' = saved
            /\ last' = Done("update", "JSONDecodeError")
       ELSE /\ files' = [saved EXCEPT ![old_role] = ListFile(kept)]
            /\ last' = Done("update", "ok")
    /\ UNCHANGED <<loader, other, procs, exports, clock, stats, ucache, gzfiles, inst, snap,
                   tmpfiles, io>>

(***************************************************************************)
(* search.py: class UserLoader, the concurrent load of the role files.     *)
(***************************************************************************)
SEARCH_ROLES == <<"Owner", "Developer", "Admin", "Member">>

\* search.py User.from_dict: the User built from an entry, none when a
\* required field is missing
from_dict(data) ==
    IF REQUIRED_FIELDS \subseteq DOMAIN data
    THEN <<[id |-> data.id, name |-> data.name, email |-> data.email, role |-> data.role]>>
    ELSE <<>>

\* the concatenation of the sequences of a sequence
RECURSIVE Flatten(_)
Flatten(ss) == IF ss = <<>> THEN <<>> ELSE Head(ss) \o Flatten(Tail(ss))

\* search.py ensure_roles_exist: the roles whose directory exists, in order
ensure_roles_exist(fs, roles) == SelectSeq(roles, LAMBDA r : r \in DOMAIN fs)

\* UserLoader._load_file: the users of one file, or the CriticalDataError
\* raised; timedOut tells that wait_for ran out of time
load_file(f, timedOut, escalate) ==
    IF timedOut THEN [err |-> FALSE, users |-> <<>>]
    ELSE IF f.st = "missing" THEN [err |-> escalate, users |-> <<>>]
    ELSE IF f.st # "list" THEN [err |-> FALSE, users |-> <<>>]
    ELSE [err |-> FALSE,
          users |-> Flatten([i \in 1..Len(f.data) |-> from_dict(f.data[i])])]

\* the results in completion order
as_completed(tasks, slots, order) == [i \in 1..Len(order) |-> slots[order[i]]]

\* asyncio.gather as load_all_users calls it: the results of the tasks in the
\* order of the tasks, whatever the order in which they completed
gather(tasks, slots, order) == [i \in 1..Len(tasks) |-> slots[tasks[i]]]

\* UserLoader(database_dir, escalate_on_missing=escalate)
NewLoader(escalate) ==
    [pc |-> "idle", escalate |-> escalate, cached |-> <<>>, tasks |-> <<>>,
     pending |-> {}, slots |-> <<>>, order |-> <<>>, how |-> "new", ret |-> <<>>]

\* a call of load_all_users returns or raises
LoadEnds(how, ret, cached) ==
    /\ loader' = [loader EXCEPT !.pc = "idle", !.how = how, !.ret = ret,
                                !.cached = cached, !.pending = {}]
    /\ last' = Done("load", how)

\* UserLoader.__init__
LoaderNew(escalate) ==
    /\ loader' = NewLoader(escalate)
    /\ last' = Done("UserLoader", "ok")
    /\ UNCHANGED <<other, procs, exports, clock, files, stats, ucache, gzfiles, inst, snap,
                   tmpfiles, io>>

\* UserLoader.load_all_users up to asyncio.gather: the cached list is
\* returned when it is not empty and no refresh is asked, else one task is
\* created per role whose users file exists
LoadStart(refresh) ==
    LET role_dirs == ensure_roles_exist(files, SEARCH_ROLES)
        tasks == SelectSeq(role_dirs, LAMBDA r : files[r].st # "missing")
    IN
    /\ loader.pc = "idle"
    /\ IF loader.cached # <<>> /\ ~refresh
       THEN LoadEnds("cached", loader.cached, loader.cached)
       ELSE IF role_dirs = <<>>
       THEN LoadEnds(IF loader.escalate THEN "CriticalDataError" ELSE "read", <<>>,
                     loader.cached)
       ELSE IF loader.escalate /\ Len(tasks) < Len(role_dirs)
       THEN LoadEnds("CriticalDataError", <<>>, loader.cached)
       ELSE /\ loader' = [loader EXCEPT !.pc = "reading", !.tasks = tasks,
                             !.pending = Range(tasks), !.order = <<>>,
                             !.slots = [r \in Range(tasks) |-> <<>>]]
            /\ last' = Done("load", "reading")
    /\ UNCHANGED <<other, procs, exports, clock, files, stats, ucache, gzfiles, inst, snap,
                   tmpfiles, io>>

\* one _load_file task completes, reading its file or running out of time
ReadComplete(role, timedOut) ==
    LET res == load_file(files[role], timedOut, loader.escalate) IN
    /\ loader.pc = "reading"
    /\ role \in loader.pending
    /\ IF res.err
       THEN LoadEnds("CriticalDataError", <<>>, loader.cached)
       ELSE /\ loader' = [loader EXCEPT !.pending = @ \ {role},
                             !.slots = [@ EXCEPT ![role] = res.users],
                             !.order = Append(@, role)]
            /\ last' = Done("load", IF timedOut THEN "timeout" ELSE "reading")
    /\ UNCHANGED <<other, procs, exports, clock, files, stats, ucache, gzfiles, inst, snap,
                   tmpfiles, io>>

\* asyncio.gather returns: the results are concatenated, cached and returned
LoadFinish ==
    LET users == Flatten(gather(loader.tasks, loader.slots, loader.order)) IN
    /\ loader.pc = "reading"
    /\ loader.pending = {}
    /\ LoadEnds("read", users, users)
    /\ UNCHANGED <<other, procs, exports, clock, files, stats, ucache, gzfiles, inst, snap,
                   tmpfiles, io>>

\* UserLoader.clear_cache
ClearCache ==
    /\ loader.pc = "idle"
    /\ loader' = [loader EXCEPT !.cached = <<>>, !.how = "cleared"]
    /\ last' = Done("clear_cache", "ok")
    /\ UNCHANGED <<other, procs, exports, clock, files, stats, ucache, gzfiles, inst, snap,
                   tmpfiles, io>>

(***************************************************************************)
(* The system.                                                             *)
(***************************************************************************)
Init ==
    /\ files = [r \in VALID_ROLES |-> ListFile(<<>>)]
    /\ stats = NoStats
    /\ ucache = [r \in VALID_ROLES |-> Cached(<<>>)]
    /\ gzfiles = [r \in VALID_ROLES |-> NoGz]
    /\ inst = NoInst
    /\ snap = NoSnap
    /\ last = Done("init", "ok")
    /\ tmpfiles = [r \in VALID_ROLES |-> Missing]
    /\ io = [phase |-> "idle"]
    /\ exports = {}
    /\ clock = 1
    /\ procs = [w \in Workers |-> IdleWorker]
    /\ loader = NewLoader(FALSE)
    /\ other = [r \in VALID_ROLES |-> Missing]

ActAddUser == \E user \in AddInputs : JsonAddUser(user)
ActNewUsers == \E role \in ADD_VALID_ROLES, safe \in BOOLEAN : NewUsers(role, safe)
ActGzAddUser == \E p \in AddPeople : GzAddUser(p.name, p.email)
ActAddMain ==
    \E p \in AddPeople, role \in ADD_VALID_ROLES \cup {"Bot"} : AddMain(p.name, p.email, role)
ActRemove ==
    \E role \in ADD_VALID_ROLES, query \in RemoveQueries, choice \in 1..MaxUsers,
       confirm \in BOOLEAN : delete_user_from_role(role, query, choice, confirm)
ActCreateBots == \E name \in BotNames, email \in BotEmails : create_bots(name, email)
ActExport == export_database
ActPutSnapshot == \E sn \in SnapshotFiles : PutSnapshot(sn)
ActImport == \E mode \in {"merge", "replace"} : import_database(mode)
ActAppendCrash == \E p \in AddPeople : AppendCrash(p.name, p.email)
ActDamageStats == \E sf \in {InvalidStats, ListStats} : DamageStats(sf)
ActRemoveLoad ==
    \E w \in Workers, role \in ADD_VALID_ROLES, query \in RemoveQueries,
       choice \in 1..MaxUsers : RemoveLoad(w, role, query, choice)
ActRemoveSave == \E w \in Workers : RemoveSave(w)
ActAddBegin == \E w \in Workers, user \in AddInputs : AddBegin(w, user)
ActAddWrite == \E w \in Workers : AddWrite(w)
ActRestart == \E w \in Workers : Restart(w)
ActBackup == \E retention \in 0..MaxRetention : run_backup(retention)
ActUpdate ==
    \E src \in ADD_VALID_ROLES, i \in 1..MaxUsers, new_role \in ADD_VALID_ROLES \cup {"Guest"} :
        UpdateMain(src, i, new_role)
ActRemoveCrash ==
    \E role \in ADD_VALID_ROLES, query \in RemoveQueries, choice \in 1..MaxUsers :
        RemoveCrash(role, query, choice)
ActAddValid2 ==
    \E user \in {u \in AddInputs : validate_user_info(u) = "ok"} : JsonAddUser2(user)
ActListAt == \E b \in {1, 2} : ListAt(b)
ActLoaderNew == \E escalate \in BOOLEAN : LoaderNew(escalate)
ActLoadStart == \E refresh \in BOOLEAN : LoadStart(refresh)
ActReadComplete ==
    \E role \in VALID_ROLES, timedOut \in BOOLEAN : ReadComplete(role, timedOut)

Next ==
    \/ ActAddUser
    \/ ActNewUsers
    \/ ActGzAddUser
    \/ ActAddMain
    \/ ActRemove
    \/ ActCreateBots
    \/ ActExport
    \/ ActPutSnapshot
    \/ ActImport
    \/ ActBackup
    \/ Tick
    \/ ActAppendCrash
    \/ UsersInit2
    \/ ActAddValid2
    \/ ActListAt
    \/ CreateBotsCrash
    \/ ActRemoveCrash
    \/ ListAllUsers
    \/ ActUpdate
    \/ ActLoaderNew
    \/ ActLoadStart
    \/ ActReadComplete
    \/ LoadFinish
    \/ ClearCache
    \/ ActDamageStats
    \/ ActRemoveLoad
    \/ ActRemoveSave
    \/ ActAddBegin
    \/ ActAddWrite
    \/ ActRestart

Spec == Init /\ [][Next]_vars

\* the add operations alone (USERS.py and add.py)
NextAdd == ActAddUser \/ ActNewUsers \/ ActGzAddUser \/ ActAddMain

SpecAdd == Init /\ [][NextAdd]_vars

\* adding and removing on the plain role files
NextRemove == ActAddUser \/ ActRemove

SpecRemove == Init /\ [][NextRemove]_vars

\* bot creation and import of external snapshots
NextImport == ActCreateBots \/ ActPutSnapshot \/ ActImport

SpecImport == Init /\ [][NextImport]_vars

\* imports into a store whose Bot file a stopped save may have damaged
NextImportFail == ActCreateBots \/ CreateBotsCrash \/ ActPutSnapshot \/ ActImport

SpecImportFail == Init /\ [][NextImportFail]_vars

\* Users.add_user on the user dictionaries that pass validation
ActAddValid ==
    \E user \in {u \in AddInputs : validate_user_info(u) = "ok"} : JsonAddUser(user)

\* adding, bot creation, export and import of the exported snapshot
NextRoundTrip == ActAddValid \/ ActCreateBots \/ ActExport \/ ActImport

SpecRoundTrip == Init /\ [][NextRoundTrip]_vars

\* the search loader at work while users are added
NextLoader ==
    \/ ActAddValid
    \/ ActLoaderNew
    \/ ActLoadStart
    \/ ActReadComplete
    \/ LoadFinish
    \/ ClearCache

SpecLoader == Init /\ [][NextLoader]_vars

\* the stores of USERS.py in two base directories
NextTwoStores == ActAddValid \/ UsersInit2 \/ ActAddValid2 \/ ActListAt

SpecTwoStores == Init /\ [][NextTwoStores]_vars

\* records are added, removed and edited
NextUpdate == ActAddValid \/ ActRemove \/ ActUpdate

SpecUpdate == Init /\ [][NextUpdate]_vars

\* the cached store of USERS.py read and written while remove.py deletes
NextCache == ActAddValid \/ ActRemove \/ ListAllUsers

SpecCache == Init /\ [][NextCache]_vars

\* a store whose role folders exist (add.py Users.__init__ creates the folder)
\* while no users.json has been written yet and no stores are constructed
InitFresh ==
    /\ files = [r \in VALID_ROLES |-> Missing]
    /\ stats = NoStats
    /\ ucache = [r \in VALID_ROLES |-> NotCached]
    /\ gzfiles = [r \in VALID_ROLES |-> NoGz]
    /\ inst = NoInst
    /\ snap = NoSnap
    /\ last = Done("init", "ok")
    /\ tmpfiles = [r \in VALID_ROLES |-> Missing]
    /\ io = [phase |-> "idle"]
    /\ exports = {}
    /\ clock = 1
    /\ procs = [w \in Workers |-> IdleWorker]
    /\ loader = NewLoader(FALSE)
    /\ other = [r \in VALID_ROLES |-> Missing]

\* registration, removal and search load on the fresh store
NextFresh ==
    \/ ActAddMain
    \/ ActRemove
    \/ ActLoadStart
    \/ ActReadComplete
    \/ LoadFinish

SpecFresh == InitFresh /\ [][NextFresh]_vars

(***************************************************************************)
(* The persist steps, one file-system call at a time, and a process stop.  *)
(***************************************************************************)
Idle == [phase |-> "idle"]

\* Users.add_user of USERS.py up to the write of the temporary file
\* (Users._write_data: open(tmp, 'w'), json.dump, flush)
StartAddUser(user) ==
    LET plan == add_user_plan(files, ucache, user) IN
    /\ io = Idle
    /\ plan.outcome = "ok"
    /\ TotalUsers(files) < MaxUsers
    /\ Len(plan.users) <= MaxUsers
    /\ tmpfiles' = [tmpfiles EXCEPT ![user.role] = ListFile(plan.users)]
    /\ ucache' = plan.cache
    /\ io' = [phase |-> "replace", op |-> "add_user", role |-> user.role,
              data |-> plan.users, prev |-> files[user.role]]
    /\ last' = Done("add_user", "writing")
    /\ UNCHANGED <<loader, other, procs, exports, clock, files, stats, gzfiles, inst, snap>>

\* tmp_file.replace(file_path) of Users._write_data
FinishReplace ==
    /\ io.phase = "replace"
    /\ files' = [files EXCEPT ![io.role] = tmpfiles[io.role]]
    /\ tmpfiles' = [tmpfiles EXCEPT ![io.role] = Missing]
    /\ io' = Idle
    /\ last' = Done(io.op, "ok")
    /\ UNCHANGED <<loader, other, procs, exports, clock, stats, ucache, gzfiles, inst, snap>>

\* delete_user_from_role up to file_path.open("w") of save_users, which
\* truncates the role file
StartRemove(role, query, choice) ==
    LET plan == remove_plan(files[role], query, choice, TRUE) IN
    /\ io = Idle
    /\ plan.outcome = "deleted"
    /\ files' = [files EXCEPT ![role] = Invalid]
    /\ io' = [phase |-> "dump", op |-> "remove", role |-> role,
              data |-> plan.data, prev |-> files[role]]
    /\ last' = Done("remove", "writing")
    /\ UNCHANGED <<loader, other, procs, exports, clock, stats, ucache, gzfiles, inst, snap, tmpfiles>>

\* json.dump(users, f) of save_users and the close of the file
FinishDump ==
    /\ io.phase = "dump"
    /\ files' = [files EXCEPT ![io.role] = ListFile(io.data)]
    /\ io' = Idle
    /\ last' = Done(io.op, "deleted")
    /\ UNCHANGED <<loader, other, procs, exports, clock, stats, ucache, gzfiles, inst, snap, tmpfiles>>

\* the process stops between two file-system calls; its memory is lost
Crash ==
    /\ io # Idle
    /\ io' = Idle
    /\ ucache' = [r \in VALID_ROLES |-> NotCached]
    /\ inst' = NoInst
    /\ last' = Done(io.op, "crash")
    /\ UNCHANGED <<loader, other, procs, exports, clock, files, stats, gzfiles, snap, tmpfiles>>

ActStartAddUser == \E user \in AddInputs : StartAddUser(user)
ActStartRemove ==
    \E role \in ADD_VALID_ROLES, query \in RemoveQueries, choice \in 1..MaxUsers :
        StartRemove(role, query, choice)

NextCrash == ActStartAddUser \/ FinishReplace \/ ActStartRemove \/ FinishDump \/ Crash

SpecCrash == Init /\ [][NextCrash]_vars

\* adds, edits and bot creation on role files that a stopped write may have
\* left without valid content
NextCorrupt ==
    \/ ActAddValid
    \/ ActUpdate
    \/ ActCreateBots
    \/ CreateBotsCrash
    \/ ActRemoveCrash

SpecCorrupt == Init /\ [][NextCorrupt]_vars

\* the encrypted store of add.py: instances, adds, and appends cut short
NextAppend == ActNewUsers \/ ActGzAddUser \/ ActAppendCrash

SpecAppend == Init /\ [][NextAppend]_vars

\* registrations through add.py main, and removals
NextAddRemove == ActAddMain \/ ActRemove

SpecAddRemove == Init /\ [][NextAddRemove]_vars

\* registrations through add.py main with a stats file that may be damaged
NextStats == ActAddMain \/ ActDamageStats

SpecStats == Init /\ [][NextStats]_vars

\* adds and removes of two workers, step by step
NextConcurrent ==
    ActRemoveLoad \/ ActRemoveSave \/ ActAddBegin \/ ActAddWrite \/ ActRestart

SpecConcurrent == Init /\ [][NextConcurrent]_vars

\* backups with any retention as the seconds pass
NextBackup == ActBackup \/ Tick

SpecBackup == Init /\ [][NextBackup]_vars

(***************************************************************************)
(* Claims.                                                                 *)
(***************************************************************************)
\* the normalized e-mails of the records of the plain role files, with the
\* place (role, position) of each
PlainPlaces == {<<r, i>> : r \in VALID_ROLES, i \in 1..MaxUsers + MaxIncoming + 1}

PlainEmailAt(fs, pl) ==
    IF fs[pl[1]].st = "list" /\ pl[2] <= Len(fs[pl[1]].data)
    THEN norm_email(Get(fs[pl[1]].data[pl[2]], "email", <<>>)) ELSE <<>>

GzEmailAt(gz, pl) ==
    IF gz[pl[1]].st = "lines" /\ pl[2] <= Len(gz[pl[1]].data)
       /\ gz[pl[1]].data[pl[2]] # BadLine
    THEN norm_email(decrypt_data(gz[pl[1]].data[pl[2]].email)) ELSE <<>>

UniquePlainEmails(fs) ==
    \A p \in PlainPlaces, q \in PlainPlaces :
        (p # q /\ PlainEmailAt(fs, p) # <<>>) => PlainEmailAt(fs, p) # PlainEmailAt(fs, q)

UniqueGzEmails(gz) ==
    \A p \in PlainPlaces, q \in PlainPlaces :
        (p # q /\ GzEmailAt(gz, p) # <<>>) => GzEmailAt(gz, p) # GzEmailAt(gz, q)

\* C1: after any sequence of add operations no two records of the store, all
\* roles combined, have the same normalized e-mail (plain role files and
\* encrypted role files each taken as one store)
C1_UniqueEmailAcrossStore == UniquePlainEmails(files) /\ UniqueGzEmails(gzfiles)

\* the identity of an e-mail is present in the plain, resp. encrypted, store
IdentityInPlain(fs, email) ==
    \E p \in PlainPlaces : PlainEmailAt(fs, p) = norm_email(email)

IdentityInGz(gz, email) ==
    \E p \in PlainPlaces : GzEmailAt(gz, p) = norm_email(email)

\* C2: an add whose e-mail identity is already present in the store fails with
\* the duplicate error and leaves collection, index and role files unchanged
C2_DuplicateAddFailsUnchanged ==
    [][ /\ \A user \in AddInputs :
              ( /\ validate_user_info(user) = "ok"
                /\ IdentityInPlain(files, user.email)
                /\ JsonAddUser(user) )
              => ( /\ last'.outcome = "ValueError:duplicate"
                   /\ files' = files /\ ucache' = ucache )
        /\ \A p \in AddPeople, role \in ADD_VALID_ROLES :
              ( /\ IdentityInGz(gzfiles, p.email)
                /\ AddMain(p.name, p.email, role) )
              => ( /\ last'.outcome = "EmailExistsError"
                   /\ gzfiles' = gzfiles /\ files' = files
                   /\ inst' = load_cache(gzfiles, role, FALSE) )
      ]_vars

\* an e-mail stored under another role differs from this one only in letter case
CaseTwinElsewhere(fs, role, email) ==
    \E p \in PlainPlaces :
        /\ p[1] # role
        /\ fs[p[1]].st = "list" /\ p[2] <= Len(fs[p[1]].data)
        /\ fs[p[1]].data[p[2]].email # email
        /\ Lower(fs[p[1]].data[p[2]].email) = Lower(email)

\* C3: an add whose e-mail differs only in letter case from the e-mail of a
\* record stored under a different role is rejected with the duplicate error
C3_CaseVariantOtherRoleRejected ==
    [][ \A user \in AddInputs :
           ( /\ validate_user_info(user) = "ok"
             /\ CaseTwinElsewhere(files, user.role, user.email)
             /\ JsonAddUser(user) )
           => last'.outcome = "ValueError:duplicate"
      ]_vars

\* a record without its id
NoId(u) == [k \in DOMAIN u \ {"id"} |-> u[k]]

\* position k of old is the choice-th record matching the query
IsSelected(old, query, choice, k) ==
    /\ k \in 1..Len(old)
    /\ fuzzy_match(query, old[k])
    /\ Cardinality({m \in 1..k : fuzzy_match(query, old[m])}) = choice

\* new holds the records of old other than the one at k, in their order,
\* ids left aside
RemovedAt(old, new, k) ==
    /\ Len(new) = Len(old) - 1
    /\ \A i \in 1..Len(new) :
          NoId(new[i]) = NoId(old[IF i < k THEN i ELSE i + 1])

\* C4 as stated: after a successful remove the role file holds the previous
\* records minus the selected one, in order, with ids exactly "1".."N"
C4_RemoveRenumbersAll ==
    [][ \A role \in ADD_VALID_ROLES, query \in RemoveQueries, choice \in 1..MaxUsers :
           ( /\ delete_user_from_role(role, query, choice, TRUE)
             /\ last'.outcome = "deleted" )
           => \E k \in 1..Len(files[role].data) :
                 /\ IsSelected(files[role].data, query, choice, k)
                 /\ RemovedAt(files[role].data, files'[role].data, k)
                 /\ \A i \in 1..Len(files'[role].data) :
                       files'[role].data[i].id = Str(i)
      ]_vars

\* C5: at every point of a persist step the role file exists and holds the
\* complete previous collection or the complete new one
C5_PersistIsCrashAtomic ==
    /\ \A r \in VALID_ROLES : files[r].st = "list"
    /\ io # Idle => files[io.role] \in {io.prev, ListFile(io.data)}

\* the roles an import of the snapshot processes
Processed == DOMAIN snap.users \cap VALID_ROLES

\* the existing records of a role followed by the incoming ones as import
\* merges them
MergeInput(role) ==
    files[role].data \o [i \in 1..Len(snap.users[role]) |->
                            normalize_user(snap.users[role][i], role)]

FirstAt(all, key) == CHOOSE i \in 1..Len(all) :
    /\ Identifier(all[i]) = key
    /\ \A k \in 1..(i - 1) : Identifier(all[k]) # key

LastAt(all, key) == CHOOSE i \in 1..Len(all) :
    /\ Identifier(all[i]) = key
    /\ \A k \in (i + 1)..Len(all) : Identifier(all[k]) # key

\* res holds one record per identity key of all, in the order the keys first
\* occur, each the last record of its key (ids left aside)
OnePerKeyLastKept(all, res) ==
    LET keys == {Identifier(all[i]) : i \in 1..Len(all)}
    IN /\ Len(res) = Cardinality(keys)
       /\ \A key \in keys :
             LET j == Cardinality({k \in keys : FirstAt(all, k) <= FirstAt(all, key)})
             IN NoId(res[j]) = NoId(all[LastAt(all, key)])

\* C6: a merge import leaves, for each processed role, exactly one record per
\* identity key (lower-cased e-mail, or the id when the e-mail is empty) of
\* the existing records followed by the incoming ones, the last occurrence
\* of each key, which replaces the earlier one in its place
C6_MergeKeepsLastPerKey ==
    [][ ( /\ last'.op = "import" /\ last'.outcome = "ok" /\ last'.mode = "merge"
          /\ import_database("merge") )
        => \A role \in Processed :
              OnePerKeyLastKept(MergeInput(role), files'[role].data)
      ]_vars

\* a merge import of a record whose e-mail an existing record carries has
\* replaced it: the role holds two records, the incoming one first
C6_Witness ==
    /\ last.op = "import" /\ last.outcome = "ok" /\ last.mode = "merge"
    /\ "Owner" \in DOMAIN snap.users
    /\ Len(snap.users["Owner"]) = 1
    /\ snap.users["Owner"][1].name = NameBo
    /\ Len(files["Owner"].data) = 2
    /\ files["Owner"].data[1].name = NameBo
    /\ files["Owner"].data[1].email = EmailAUpper
    /\ files["Owner"].data[2].email = EmailEmpty

\* the records of a role, ids left aside
RecordSet(fs, role) == {NoId(fs[role].data[i]) : i \in 1..Len(fs[role].data)}

\* C7: exporting the store and importing that snapshot in replace mode
\* succeeds and leaves every role's record set as it was, ids left aside
C7_ExportReplaceImportRoundTrip ==
    [][ ( /\ snap = [st |-> "ok",
                     users |-> [r \in VALID_ROLES |-> load_role_users(files, r).data]]
          /\ import_database("replace") )
        => ( /\ last'.outcome = "ok"
             /\ \A r \in VALID_ROLES : RecordSet(files', r) = RecordSet(files, r) )
      ]_vars

\* C8: after a successful import no two records of the store, all roles
\* combined, have the same normalized e-mail
C8_ImportKeepsEmailsUnique ==
    (last.op = "import" /\ last.outcome = "ok") => UniquePlainEmails(files)

\* C9: after a successful import every processed role holds records whose
\* ids are "1", "2", ..., "N" in stored order
C9_ImportReindexesProcessedRoles ==
    (last.op = "import" /\ last.outcome = "ok")
    => \A role \in Processed :
          /\ files[role].st = "list"
          /\ \A i \in 1..Len(files[role].data) :
                Get(files[role].data[i], "id", <<>>) = Str(i)

\* a merge import has processed the Bot role, whose two records, created
\* without ids, now carry "1" and "2"
C9_Witness ==
    /\ last.op = "import" /\ last.outcome = "ok" /\ last.mode = "merge"
    /\ "Bot" \in Processed
    /\ Len(files["Bot"].data) = 2
    /\ files["Bot"].data[1].name \in BotNames
    /\ files["Bot"].data[2].name \in BotNames
    /\ files["Bot"].data[2].id = Id2

\* C10: after a successful import the persisted User_Count is the sum of the
\* record counts of all roles of the store
C10_StatsCountAllRoles ==
    (last.op = "import" /\ last.outcome = "ok") => stats = StatsFile(TotalUsers(files))

\* C11: an import of a snapshot whose 'users' section is missing or is no
\* mapping fails with a validation error and leaves every role file and the
\* stats file as they were
C11_BadUsersSectionFailsUnwritten ==
    [][ \A mode \in {"merge", "replace"} :
           ( /\ snap.st \in {"absent", "list"}
             /\ last'.op = "import"
             /\ import_database(mode) )
           => ( /\ last'.outcome = "ValueError:users"
                /\ files' = files
                /\ stats' = stats )
      ]_vars

\* an import of a snapshot without a 'users' mapping was refused on a store
\* that holds records and a stats file
C11_Witness ==
    /\ last.op = "import" /\ last.outcome = "ValueError:users"
    /\ snap.st \in {"absent", "list"}
    /\ TotalUsers(files) > 0
    /\ stats.st = "ok"

\* the number of records the processed roles hold in fs
ProcessedTotal(fs) ==
    SeqSum([i \in 1..Len(RoleOrder) |->
               IF RoleOrder[i] \in Processed THEN Len(fs[RoleOrder[i]].data) ELSE 0])

\* every entry of the snapshot under a role of the store has the required fields
EntriesComplete ==
    \A r \in Processed : \A i \in 1..Len(snap.users[r]) :
        REQUIRED_FIELDS \subseteq DOMAIN snap.users[r][i]

\* C12: a key of the snapshot that is none of the fixed roles is skipped
\* without error: no file is created or changed for it, it is absent from the
\* per-role counts and its records are not counted in the total
C12_UnknownRoleKeySkipped ==
    [][ \A mode \in {"merge", "replace"} :
           ( /\ snap.st = "ok"
             /\ DOMAIN snap.users \ VALID_ROLES # {}
             /\ last'.op = "import"
             /\ import_database(mode) )
           => ( /\ (last'.outcome = "ok") <=> EntriesComplete
                /\ DOMAIN files' = DOMAIN files
                /\ Processed = {} => files' = files
                /\ last'.outcome = "ok" =>
                      /\ DOMAIN last'.summary.roles_updated = Processed
                      /\ last'.summary.total_users = ProcessedTotal(files') )
      ]_vars

\* an import has met the key Guest holding an entry, and counted one record
C12_Witness ==
    /\ last.op = "import" /\ last.outcome = "ok"
    /\ "Guest" \in DOMAIN snap.users
    /\ Len(snap.users["Guest"]) = 1
    /\ last.summary.total_users = 1
    /\ Len(files["Bot"].data) = 1

\* C13: after a replace import each role of the snapshot holds only records
\* of the snapshot for that role, as many as the incoming records have
\* distinct identities
C13_ReplaceKeepsOnlyIncoming ==
    [][ ( /\ last'.op = "import" /\ last'.outcome = "ok" /\ last'.mode = "replace"
          /\ import_database("replace") )
        => \A role \in Processed :
              LET inc == [i \in 1..Len(snap.users[role]) |->
                             normalize_user(snap.users[role][i], role)]
                  res == files'[role].data
              IN /\ \A j \in 1..Len(res) : \E i \in 1..Len(inc) : NoId(res[j]) = NoId(inc[i])
                 /\ Len(res) = Cardinality({Identifier(inc[i]) : i \in 1..Len(inc)})
      ]_vars

\* a replace import of two Owner entries of one identity has left one record
C13_Witness ==
    /\ last.op = "import" /\ last.outcome = "ok" /\ last.mode = "replace"
    /\ "Owner" \in Processed
    /\ Len(snap.users["Owner"]) = 2
    /\ Len(files["Owner"].data) = 1
    /\ files["Owner"].data[1].name = NameBo

\* C14: the summary of an import gives for each processed role the number of
\* its incoming entries, and as total the records the processed roles hold
\* after the import
C14_SummaryCountsIncomingAndTotal ==
    (last.op = "import" /\ last.outcome = "ok")
    => /\ DOMAIN last.summary.roles_updated = Processed
       /\ \A r \in Processed : last.summary.roles_updated[r] = Len(snap.users[r])
       /\ last.summary.total_users = ProcessedTotal(files)

\* a merge import of one Owner entry has left two Owner records
C14_Witness ==
    /\ last.op = "import" /\ last.outcome = "ok" /\ last.mode = "merge"
    /\ DOMAIN last.summary.roles_updated = {"Owner"}
    /\ last.summary.roles_updated["Owner"] = 1
    /\ last.summary.total_users = 2

\* the n greatest elements of a set of numbers
Greatest(S, n) == {x \in S : Cardinality({y \in S : y > x}) < n}

\* C15: after a backup with retention N > 0 the exports directory holds at
\* most N exports, they are the N greatest in name order of those it held
\* with the new one, and the new one is among them
C15_BackupKeepsNewestN ==
    [][ \A retention \in 1..MaxRetention :
           ( /\ run_backup(retention)
             /\ last'.outcome = "ok" )
           => ( /\ Cardinality(exports') <= retention
                /\ exports' = Greatest(exports \cup {clock}, retention)
                /\ clock \in exports' )
      ]_vars

\* the last line of the encrypted file of a role is cut short and the lines
\* before it are whole
TrailingBadLine(gz, role) ==
    /\ gz[role].st = "lines"
    /\ Len(gz[role].data) >= 1
    /\ gz[role].data[Len(gz[role].data)] = BadLine
    /\ \A i \in 1..(Len(gz[role].data) - 1) : gz[role].data[i] # BadLine

\* C16: loading an append-mode role file whose last line is invalid does not
\* raise: the load returns the valid records before the bad line, in order,
\* and indexes them
C16_LoadToleratesTrailingBadLine ==
    [][ \A role \in ADD_VALID_ROLES, safe \in BOOLEAN :
           ( /\ TrailingBadLine(gzfiles, role)
             /\ NewUsers(role, safe) )
           => LET good == SubSeq(gzfiles[role].data, 1, Len(gzfiles[role].data) - 1)
              IN /\ last'.outcome = "ok"
                 /\ inst'.cache = good
                 /\ inst'.email_index = IndexOf(good)
      ]_vars

\* C17: no two records of one role's collection carry the same id
C17_IdsUniqueWithinRole ==
    \A r \in VALID_ROLES :
        files[r].st = "list" =>
            \A i \in 1..Len(files[r].data), j \in 1..Len(files[r].data) :
                ( /\ i # j
                  /\ "id" \in DOMAIN files[r].data[i]
                  /\ "id" \in DOMAIN files[r].data[j] )
                => files[r].data[i].id # files[r].data[j].id

\* C18: after every successful add the persisted User_Count is the number of
\* records stored across all roles
C18_AddKeepsUserCountTotal ==
    (last.op = "add_main" /\ last.outcome = "ok")
    => stats = StatsFile(TotalUsers(files))

\* C19: when the stats file is missing, unreadable or holds no valid stats
\* object, the add flow does not fail on it and takes User_Count as 0, so
\* that the record added gets the id "1" and the counter becomes 1
C19_LoadStatsNeverFailsCaller ==
    [][ \A p \in AddPeople, role \in ADD_VALID_ROLES :
           ( /\ stats.st # "ok"
             /\ AddMain(p.name, p.email, role) )
           => ( /\ last'.outcome \in {"ok", "EmailExistsError", "DatabaseError"}
                /\ last'.outcome = "ok" => stats' = StatsFile(1) )
      ]_vars

\* the role file shows the finished operation of worker w: the record it
\* added is there, the record it removed is not (ids left aside)
Reflected(w) ==
    LET data == files[procs[w].role].data
        there == \E i \in 1..Len(data) : NoId(data[i]) = NoId(procs[w].rec)
    IN IF procs[w].op = "add" THEN there ELSE ~there

\* C20: when two mutations of one role file have run concurrently, in any
\* interleaving, the file reflects both and no update is lost
C20_ConcurrentMutationsBothApplied ==
    \A w \in Workers, v \in Workers :
        ( /\ w # v
          /\ procs[w].pc = "done" /\ procs[v].pc = "done"
          /\ procs[w].overlap /\ procs[v].overlap
          /\ procs[w].role = procs[v].role
          /\ NoId(procs[w].rec) # NoId(procs[v].rec) )
        => Reflected(w) /\ Reflected(v)

\* C21: a role file whose read runs out of time contributes no record and
\* the load goes on with the other roles; with escalate_on_missing set, the
\* timeout makes the whole load fail with a CriticalDataError
C21_TimeoutSkipsOrEscalates ==
    [][ \A role \in VALID_ROLES :
           ReadComplete(role, TRUE)
           => IF loader.escalate
              THEN loader'.pc = "idle" /\ loader'.how = "CriticalDataError"
              ELSE /\ loader'.pc = "reading"
                   /\ loader'.slots[role] = <<>>
                   /\ loader'.pending = loader.pending \ {role}
      ]_vars

\* C22: whatever the order in which the reads complete, load_all_users
\* returns the concatenation of the per-role results in role order
C22_LoadOrderIndependent ==
    [][ LoadFinish
        => loader'.ret = Flatten([i \in 1..Len(loader.tasks) |->
                                    loader.slots[loader.tasks[i]]])
      ]_vars

\* a load has returned the users of two roles whose reads completed against
\* the role order
C22_Witness ==
    /\ loader.how = "read"
    /\ loader.order = <<"Admin", "Owner">>
    /\ loader.slots["Owner"] # <<>> /\ loader.slots["Admin"] # <<>>
    /\ loader.ret = loader.slots["Owner"] \o loader.slots["Admin"]

\* C30: once a load has returned, a later load without refresh returns the
\* same list and reads no file, whatever the first load returned
C30_LoadedViewKept ==
    [][ ( /\ loader.how \in {"read", "cached"}
          /\ LoadStart(FALSE) )
        => ( /\ loader'.pc = "idle"
             /\ loader'.how = "cached"
             /\ loader'.ret = loader.ret )
      ]_vars

\* C23: loading a role whose users file does not exist yields the empty
\* collection and raises no error, in the storage adapter, in the search
\* loader and in the load of remove
C23_MissingFileLoadsEmpty ==
    [][ \A role \in ADD_VALID_ROLES :
           files[role].st = "missing"
           => /\ load_role_users(files, role) = [err |-> FALSE, data |-> <<>>]
              /\ \A refresh \in BOOLEAN :
                    (~loader.escalate /\ LoadStart(refresh))
                    => /\ loader'.how # "CriticalDataError"
                       /\ loader'.pc = "reading" => role \notin Range(loader'.tasks)
              /\ \A query \in RemoveQueries :
                    delete_user_from_role(role, query, 1, TRUE)
                    => last'.outcome = "empty"
      ]_vars

\* C24: after every load and every successful mutation through a role store
\* the cache of the role equals the collection in the role's file, and the
\* uniqueness index equals the keys of the cached records with a readable
\* email
C24_CacheMatchesFile ==
    /\ last.op = "list_all_users"
          => \A r \in VALID_ROLES : ucache[r] = Cached(files[r].data)
    /\ (last.op \in {"Users", "gz_add_user"} /\ last.outcome = "ok")
          => /\ inst.cache = gzfiles[inst.role].data
             /\ inst.email_index = IndexOf(inst.cache)

\* C25: when update saves a record whose role was changed, the record is
\* then in the file of the new role and not in the file of the old role, and
\* every other record of the two roles is still there unchanged, also when
\* the new role already holds a record with the same id
C25_RoleChangeMovesOnlyTheRecord ==
    [][ \A src \in ADD_VALID_ROLES, new_role \in ADD_VALID_ROLES, i \in 1..MaxUsers :
           ( /\ new_role # src
             /\ i <= Len(files[src].data)
             /\ Get(files[src].data[i], "role", <<>>) = src
             /\ UpdateMain(src, i, new_role) )
           => LET user == files[src].data[i]
                  moved == [user EXCEPT !.role = new_role]
              IN /\ last'.outcome = "ok"
                 /\ moved \in Range(files'[new_role].data)
                 /\ user \notin Range(files'[src].data)
                 /\ Range(files[new_role].data) \subseteq Range(files'[new_role].data)
                 /\ \A j \in 1..Len(files[src].data) :
                       j # i => files[src].data[j] \in Range(files'[src].data)
      ]_vars

\* C26: when a role file exists and cannot be parsed, an add, an update save
\* or a bot creation on that role fails with an error and leaves the file as
\* it was; the file is never replaced by a list holding the new record only
C26_UnparsableFileNotReplaced ==
    [][ \A role \in VALID_ROLES :
           files[role].st = "invalid"
           => /\ \A user \in AddInputs :
                    (Get(user, "role", "none") = role /\ JsonAddUser(user))
                    => (files'[role] = files[role] /\ last'.outcome # "ok")
              /\ \A src \in ADD_VALID_ROLES, i \in 1..MaxUsers :
                    UpdateMain(src, i, role)
                    => (files'[role] = files[role] /\ last'.outcome # "ok")
              /\ \A name \in BotNames, email \in BotEmails :
                    (role = "Bot" /\ create_bots(name, email))
                    => (files'[role] = files[role] /\ last'.outcome # "ok")
      ]_vars

\* import fails at role r: an entry lacks a required field, or the import
\* merges and the file of r cannot be read as a list
RoleFails(mode, r) ==
    /\ r \in Processed
    /\ \/ \E i \in 1..Len(snap.users[r]) : ~(REQUIRED_FIELDS \subseteq DOMAIN snap.users[r][i])
       \/ mode = "merge" /\ load_role_users(files, r).err

\* the place of a role in the order in which import goes through the roles
Pos(r) == CHOOSE i \in 1..Len(SnapshotKeyOrder) : SnapshotKeyOrder[i] = r

\* C27: when import fails at some role, the file of that role and the files
\* of the roles not yet processed are unchanged, the roles processed before
\* it hold their newly written collections, and the stats counter keeps its
\* previous value
C27_FailedImportKeepsEarlierRoles ==
    [][ \A mode \in {"merge", "replace"} :
           ( /\ last'.op = "import"
             /\ last'.outcome \in {"ValueError:missing", "ValueError:json"}
             /\ import_database(mode) )
           => LET failing == {r \in VALID_ROLES : RoleFails(mode, r)}
                  first == CHOOSE r \in failing : \A q \in failing : Pos(r) <= Pos(q)
                  incoming(r) == [i \in 1..Len(snap.users[r]) |->
                                     normalize_user(snap.users[r][i], r)]
              IN /\ failing # {}
                 /\ stats' = stats
                 /\ \A r \in VALID_ROLES :
                       IF r \in Processed /\ Pos(r) < Pos(first)
                       THEN files'[r] = ListFile(reindex_ids(dedupe_users(
                                import_source(mode, files[r].data, incoming(r)))))
                       ELSE files'[r] = files[r]
      ]_vars

\* an import has failed at Admin after it had written the records of Owner,
\* and the stats file was never written
C27_Witness ==
    /\ last.op = "import" /\ last.outcome = "ValueError:missing"
    /\ snap.st = "ok" /\ DOMAIN snap.users = {"Owner", "Admin"}
    /\ snap.users["Owner"] # <<>>
    /\ files["Owner"].data # <<>>
    /\ stats = NoStats

StoredIn(b) == UNION {Range(BaseFiles(b)[r].data) : r \in VALID_ROLES}

\* C28: two stores created with different base directories are independent:
\* a read of one returns only records of its own role files, and the
\* duplicate check of a store consults only the role files under its own
\* base directory
C28_StoresIndependent ==
    [][ /\ \A b \in {1, 2} : ListAt(b) => Range(last'.data) \subseteq StoredIn(b)
        /\ \A user \in {u \in AddInputs : validate_user_info(u) = "ok"} :
              /\ JsonAddUser(user)
                    => (last'.outcome = "ValueError:duplicate"
                          <=> is_duplicate(files, user.name, user.email))
              /\ JsonAddUser2(user)
                    => (last'.outcome = "ValueError:duplicate"
                          <=> is_duplicate(other, user.name, user.email))
      ]_vars

====
